---- MODULE Spec2Model ----
(***************************************************************************)
(* PromptGuard-2 inference server (docker/prompt-guard/server.py).         *)
(*                                                                         *)
(* One background thread runs load_model; the event loop runs one request  *)
(* handler at a time (the handlers are coroutines without an await, so     *)
(* they do not interleave with one another), and every step of a handler   *)
(* may interleave with every step of the load thread.                      *)
(*                                                                         *)
(* Optional[T] values are sequences of length 0 (None) or 1 (the value).   *)
(***************************************************************************)
EXTENDS Integers, Sequences, FiniteSets, TLC

\* ---------------------------------------------------------------- bounds
NumTexts == 2
MaxBatch == 2
NumWeights == 2
MaxRestarts == 1

Texts == 1..NumTexts
Weights == 1..NumWeights

\* --------------------------------------------------------------- constants
None == <<>>
Some(v) == <<v>>

LABEL_NAMES == <<"BENIGN", "INJECTION", "JAILBREAK">>

HfTokenMissingMsg == "HF_TOKEN not set and model not cached"

\* HF_TOKEN = os.environ.get("HF_TOKEN"): unset, set to the empty string, or set.
HfTokenValues == {None, Some(""), Some("hf_token")}

\* str(e) of the exceptions the external calls can raise; str(e) may be empty.
ErrMsgs == {"", "load failed"}

VARIABLES
    model,          \* global model: None or Some(weights)
    tokenizer,      \* global tokenizer: None or Some(weights)
    model_ready,    \* global model_ready
    load_error,     \* global load_error: None or Some(message)
    HF_TOKEN,       \* the configured credential (fixed at import)
    marker,         \* does MODEL_CACHE_DIR/config.json exist
    weights,        \* the pretrained artifact that the cache / the hub holds
    started,        \* has lifespan started the load thread
    loadPc,         \* position of the load thread in load_model
    markerSeen,     \* what os.path.exists(config_path) returned: None or Some(bool)
    failedAt,       \* the call of load_model that raised: None or Some(step)
    downloadCalls,  \* from_pretrained(MODEL_ID, token=HF_TOKEN) calls made so far
    saveCalls,      \* save_pretrained(MODEL_CACHE_DIR) calls made so far
    threadsStarted, \* number of load threads started in this process
    req,            \* the request the event loop is handling (or has just answered)
    probs,          \* classify_single's local probs: None or Some(vector)
    response,       \* the ClassifyResponse built from probs: None or Some(response)
    restarts,       \* how often the orchestrator has restarted the process
    readyByDownload \* did an earlier process on this cache directory become ready
                    \* through a download

vars == <<model, tokenizer, model_ready, load_error, HF_TOKEN, marker, weights,
          started, loadPc, markerSeen, failedAt, downloadCalls, saveCalls,
          threadsStarted, req, probs, response, restarts, readyByDownload>>

\* probs and response are used by the specification of the pure part of
\* classify_single only (SpecClassify); the server's actions leave them alone.
\* restarts and readyByDownload change only when the process is restarted
\* (SpecRestart).
envVars == <<HF_TOKEN, weights, probs, response, restarts, readyByDownload>>
loadVars == <<model, tokenizer, model_ready, load_error, marker, loadPc,
              markerSeen, failedAt, downloadCalls, saveCalls>>

\* ------------------------------------------------------------- load_model

\* Variant: "if HF_TOKEN is None", which takes the empty string for a credential.
NotHfToken_OnlyNone(tok) == tok = None

\* "if not HF_TOKEN": None and the empty string are both falsy.
NotHfToken(tok) == tok = None \/ tok = Some("")

\* Variant: the handler does not catch the exception (a narrower except clause);
\* it leaves load_model and ends the thread.
ExceptHandler_Uncaught(msg) ==
    /\ load_error' = load_error
    /\ loadPc' = "propagated"

\* Variant: the handler records the error and runs the load sequence again.
ExceptHandler_Retry(msg) ==
    /\ load_error' = Some(msg)
    /\ loadPc' = "makedirs"

\* except Exception as e: load_error = str(e); load_model then returns normally.
ExceptHandler(msg) ==
    /\ load_error' = Some(msg)
    /\ loadPc' = "done"

\* An external call made inside the try block raises an Exception with str(e) = msg.
Raises ==
    /\ failedAt' = Some(loadPc)
    /\ \E msg \in ErrMsgs : ExceptHandler(msg)

\* thread = threading.Thread(target=load_model, daemon=True); thread.start(); yield
lifespan ==
    /\ ~started
    /\ started' = TRUE
    /\ threadsStarted' = threadsStarted + 1
    /\ loadPc' = "makedirs"
    /\ UNCHANGED <<model, tokenizer, model_ready, load_error, marker, markerSeen,
                   failedAt, downloadCalls, saveCalls, envVars, req>>

\* os.makedirs(MODEL_CACHE_DIR, exist_ok=True)
LoadMakedirs ==
    /\ loadPc = "makedirs"
    /\ \/ loadPc' = "exists" /\ UNCHANGED <<load_error, failedAt>>
       \/ Raises
    /\ UNCHANGED <<model, tokenizer, model_ready, marker, markerSeen,
                   downloadCalls, saveCalls, envVars, started, threadsStarted, req>>

\* Variant: a configured credential makes load refresh the cache from the hub even
\* though the marker is there.
LoadExists_RefreshWhenToken ==
    /\ loadPc = "exists"
    /\ markerSeen' = Some(marker)
    /\ loadPc' = IF marker /\ NotHfToken(HF_TOKEN) THEN "disk_tokenizer"
                 ELSE "check_token"
    /\ UNCHANGED <<model, tokenizer, model_ready, load_error, marker, failedAt,
                   downloadCalls, saveCalls, envVars, started, threadsStarted, req>>

\* if os.path.exists(config_path): ... else: ...
LoadExists ==
    /\ loadPc = "exists"
    /\ markerSeen' = Some(marker)
    /\ loadPc' = IF marker THEN "disk_tokenizer" ELSE "check_token"
    /\ UNCHANGED <<model, tokenizer, model_ready, load_error, marker, failedAt,
                   downloadCalls, saveCalls, envVars, started, threadsStarted, req>>

\* Variant: the flag is set as soon as the tokenizer is loaded from the cache.
LoadDiskTokenizer_SetsReady ==
    /\ loadPc = "disk_tokenizer"
    /\ \/ tokenizer' = Some(weights) /\ model_ready' = TRUE /\ loadPc' = "disk_model"
          /\ UNCHANGED <<load_error, failedAt>>
       \/ Raises /\ UNCHANGED <<tokenizer, model_ready>>
    /\ UNCHANGED <<model, marker, markerSeen,
                   downloadCalls, saveCalls, envVars, started, threadsStarted, req>>

\* tokenizer = AutoTokenizer.from_pretrained(MODEL_CACHE_DIR)
LoadDiskTokenizer ==
    /\ loadPc = "disk_tokenizer"
    /\ \/ tokenizer' = Some(weights) /\ loadPc' = "disk_model"
          /\ UNCHANGED <<load_error, failedAt>>
       \/ Raises /\ UNCHANGED tokenizer
    /\ UNCHANGED <<model, model_ready, marker, markerSeen,
                   downloadCalls, saveCalls, envVars, started, threadsStarted, req>>

\* model = AutoModelForSequenceClassification.from_pretrained(MODEL_CACHE_DIR)
LoadDiskModel ==
    /\ loadPc = "disk_model"
    /\ \/ model' = Some(weights) /\ loadPc' = "requires_grad"
          /\ UNCHANGED <<load_error, failedAt>>
       \/ Raises /\ UNCHANGED model
    /\ UNCHANGED <<tokenizer, model_ready, marker, markerSeen,
                   downloadCalls, saveCalls, envVars, started, threadsStarted, req>>

\* Variant: the missing credential is only logged; load returns without recording it.
LoadCheckToken_SilentReturn ==
    /\ loadPc = "check_token"
    /\ loadPc' = IF NotHfToken(HF_TOKEN) THEN "done" ELSE "download_tokenizer"
    /\ UNCHANGED <<model, tokenizer, model_ready, load_error, marker, markerSeen,
                   failedAt, downloadCalls, saveCalls, envVars, started,
                   threadsStarted, req>>

\* Variant: the "return" after recording the missing credential is lost, so the
\* routine goes on to the download.
LoadCheckToken_NoReturn ==
    /\ loadPc = "check_token"
    /\ IF NotHfToken(HF_TOKEN)
       THEN load_error' = Some(HfTokenMissingMsg)
       ELSE UNCHANGED load_error
    /\ loadPc' = "download_tokenizer"
    /\ UNCHANGED <<model, tokenizer, model_ready, marker, markerSeen, failedAt,
                   downloadCalls, saveCalls, envVars, started, threadsStarted, req>>

\* if not HF_TOKEN: load_error = "HF_TOKEN not set and model not cached"; return
LoadCheckToken ==
    /\ loadPc = "check_token"
    /\ IF NotHfToken(HF_TOKEN)
       THEN load_error' = Some(HfTokenMissingMsg) /\ loadPc' = "done"
       ELSE loadPc' = "download_tokenizer" /\ UNCHANGED load_error
    /\ UNCHANGED <<model, tokenizer, model_ready, marker, markerSeen, failedAt,
                   downloadCalls, saveCalls, envVars, started, threadsStarted, req>>

\* tokenizer = AutoTokenizer.from_pretrained(MODEL_ID, token=HF_TOKEN)
LoadDownloadTokenizer ==
    /\ loadPc = "download_tokenizer"
    /\ downloadCalls' = downloadCalls + 1
    /\ \/ tokenizer' = Some(weights) /\ loadPc' = "download_model"
          /\ UNCHANGED <<load_error, failedAt>>
       \/ Raises /\ UNCHANGED tokenizer
    /\ UNCHANGED <<model, model_ready, marker, markerSeen,
                   saveCalls, envVars, started, threadsStarted, req>>

\* Variant: the write-back to the cache is left out after the download.
LoadDownloadModel_NoWriteBack ==
    /\ loadPc = "download_model"
    /\ downloadCalls' = downloadCalls + 1
    /\ \/ model' = Some(weights) /\ loadPc' = "requires_grad"
          /\ UNCHANGED <<load_error, failedAt>>
       \/ Raises /\ UNCHANGED model
    /\ UNCHANGED <<tokenizer, model_ready, marker, markerSeen,
                   saveCalls, envVars, started, threadsStarted, req>>

\* model = AutoModelForSequenceClassification.from_pretrained(MODEL_ID, token=HF_TOKEN)
LoadDownloadModel ==
    /\ loadPc = "download_model"
    /\ downloadCalls' = downloadCalls + 1
    /\ \/ model' = Some(weights) /\ loadPc' = "save_tokenizer"
          /\ UNCHANGED <<load_error, failedAt>>
       \/ Raises /\ UNCHANGED model
    /\ UNCHANGED <<tokenizer, model_ready, marker, markerSeen,
                   saveCalls, envVars, started, threadsStarted, req>>

\* tokenizer.save_pretrained(MODEL_CACHE_DIR): writes the tokenizer files, not config.json
LoadSaveTokenizer ==
    /\ loadPc = "save_tokenizer"
    /\ saveCalls' = saveCalls + 1
    /\ \/ loadPc' = "save_model" /\ UNCHANGED <<load_error, failedAt>>
       \/ Raises
    /\ UNCHANGED <<model, tokenizer, model_ready, marker, markerSeen,
                   downloadCalls, envVars, started, threadsStarted, req>>

\* model.save_pretrained(MODEL_CACHE_DIR): writes config.json and the weights; a call
\* that raises may or may not have written config.json already.
LoadSaveModel ==
    /\ loadPc = "save_model"
    /\ saveCalls' = saveCalls + 1
    /\ \/ marker' = TRUE /\ loadPc' = "requires_grad"
          /\ UNCHANGED <<load_error, failedAt>>
       \/ Raises /\ marker' \in {marker, TRUE}
    /\ UNCHANGED <<model, tokenizer, model_ready, markerSeen,
                   downloadCalls, envVars, started, threadsStarted, req>>

\* Variant: the flag is set before model.requires_grad_(False) is called.
LoadRequiresGrad_ReadyFirst ==
    /\ loadPc = "requires_grad"
    /\ model_ready' = TRUE
    /\ \/ loadPc' = "set_ready" /\ UNCHANGED <<load_error, failedAt>>
       \/ Raises
    /\ UNCHANGED <<model, tokenizer, marker, markerSeen,
                   downloadCalls, saveCalls, envVars, started, threadsStarted, req>>

\* model.requires_grad_(False)
LoadRequiresGrad ==
    /\ loadPc = "requires_grad"
    /\ \/ loadPc' = "set_ready" /\ UNCHANGED <<load_error, failedAt>>
       \/ Raises
    /\ UNCHANGED <<model, tokenizer, model_ready, marker, markerSeen,
                   downloadCalls, saveCalls, envVars, started, threadsStarted, req>>

\* model_ready = True
LoadSetReady ==
    /\ loadPc = "set_ready"
    /\ model_ready' = TRUE
    /\ loadPc' = "done"
    /\ UNCHANGED <<model, tokenizer, load_error, marker, markerSeen, failedAt,
                   downloadCalls, saveCalls, envVars, started, threadsStarted, req>>

\* --------------------------------------------------------- classify_single

\* The class probabilities softmax(outputs.logits)[0] of the external model, in
\* millionths; each vector sums to 1000000.  The table holds clear winners, ties
\* and values that sit on a rounding boundary.
ProbTable ==
    << <<999000, 600, 400>>,
       <<100050, 899900, 50>>,
       <<400000, 400000, 200000>>,
       <<50, 499975, 499975>>,
       <<12349, 12351, 975300>>,
       <<333333, 333333, 333334>> >>

\* outputs = model(**inputs); probs = torch.softmax(outputs.logits, dim=-1)[0]
Forward(w, text) == ProbTable[((2 * w + text) % Len(ProbTable)) + 1]

\* Variant: round(p, 2), expressed in ten-thousandths.
Round4_TwoDigits(p) ==
    LET q == p \div 10000
        r == p % 10000
    IN  100 * (IF r > 5000 \/ (r = 5000 /\ q % 2 = 1) THEN q + 1 ELSE q)

\* round(p, 4): to the nearest ten-thousandth, a half to the even neighbour.
Round4(p) ==
    LET q == p \div 100
        r == p % 100
    IN  IF r > 50 \/ (r = 50 /\ q % 2 = 1) THEN q + 1 ELSE q

\* Variant: the last index holding the maximum.
ArgMax_LastMax(probs_) ==
    CHOOSE k \in 1..Len(probs_) :
        /\ \A j \in 1..Len(probs_) : probs_[j] <= probs_[k]
        /\ \A j \in (k + 1)..Len(probs_) : probs_[j] < probs_[k]

\* probs.argmax().item(): the first index holding the maximum.
ArgMax(probs_) ==
    CHOOSE k \in 1..Len(probs_) :
        /\ \A j \in 1..Len(probs_) : probs_[j] <= probs_[k]
        /\ \A j \in 1..(k - 1) : probs_[j] < probs_[k]

\* scores, top_idx, label and the ClassifyResponse built from them.
ClassifyResponse(probs_) ==
    LET label == LABEL_NAMES[ArgMax(probs_)]
    IN  [injection |-> label = "INJECTION",
         jailbreak |-> label = "JAILBREAK",
         label     |-> label,
         scores    |-> [benign    |-> Round4(probs_[1]),
                        injection |-> Round4(probs_[2]),
                        jailbreak |-> Round4(probs_[3])]]

\* ------------------------------------------------------------ the requests

\* No request yet.
NoRequest ==
    [kind |-> "none", texts |-> <<>>, i |-> 0, pc |-> "done", gate |-> <<>>,
     tokCalls |-> <<>>, fwdCalls |-> <<>>, inputs |-> None, results |-> <<>>,
     status |-> 0, ok |-> None, ready |-> None, error |-> None]

NewRequest(kind, texts, pc) ==
    [NoRequest EXCEPT !.kind = kind, !.texts = texts, !.pc = pc,
                      !.i = IF kind = "health" THEN 0 ELSE 1]

BatchInputs == UNION {[1..n -> Texts] : n \in 0..MaxBatch}

\* The event loop takes the next request once the previous one is answered.
\* POST /classify {text}: classify_single(request.text)
ReceiveClassify ==
    /\ started /\ req.pc = "done"
    /\ \E t \in Texts : req' = NewRequest("classify", <<t>>, "gate_ready")
    /\ UNCHANGED <<loadVars, envVars, started, threadsStarted>>

\* POST /classify/batch {texts}
ReceiveBatch ==
    /\ started /\ req.pc = "done"
    /\ \E ts \in BatchInputs : req' = NewRequest("batch", ts, "batch_start")
    /\ UNCHANGED <<loadVars, envVars, started, threadsStarted>>

\* GET /health
ReceiveHealth ==
    /\ started /\ req.pc = "done"
    /\ req' = NewRequest("health", <<>>, "health_ok")
    /\ UNCHANGED <<loadVars, envVars, started, threadsStarted>>

\* Variant: a text that fails the gate is skipped (the exception is swallowed per
\* element) and the handler answers with the results it has.
NotReady503_SkipElement(r) ==
    IF r.i = Len(r.texts)
    THEN [r EXCEPT !.status = 200, !.pc = "done"]
    ELSE [r EXCEPT !.i = r.i + 1, !.pc = "gate_ready"]

\* raise HTTPException(status_code=503, detail="Model not ready"): it leaves
\* classify_single and the handler (and the list comprehension of the batch).
NotReady503(r) ==
    [r EXCEPT !.status = 503, !.results = <<>>, !.pc = "done"]

\* Variant: the batch handler checks readiness itself before looking at the list.
BatchStart_GateFirst ==
    /\ req.pc = "batch_start"
    /\ req' = IF ~model_ready THEN NotReady503(req)
              ELSE IF req.texts = <<>>
              THEN [req EXCEPT !.status = 200, !.results = <<>>, !.pc = "done"]
              ELSE [req EXCEPT !.pc = "gate_ready"]
    /\ UNCHANGED <<loadVars, envVars, started, threadsStarted>>

\* if not request.texts: return []
BatchStart ==
    /\ req.pc = "batch_start"
    /\ req' = IF req.texts = <<>>
              THEN [req EXCEPT !.status = 200, !.results = <<>>, !.pc = "done"]
              ELSE [req EXCEPT !.pc = "gate_ready"]
    /\ UNCHANGED <<loadVars, envVars, started, threadsStarted>>

\* Variant: the gate takes "no load error" (what health reports as ok) for readiness.
GateReady_UsesLoadError ==
    /\ req.pc = "gate_ready"
    /\ LET r == [req EXCEPT !.gate = Append(@, model_ready)]
       IN  req' = IF load_error # None THEN NotReady503(r)
                  ELSE [r EXCEPT !.pc = "gate_model"]
    /\ UNCHANGED <<loadVars, envVars, started, threadsStarted>>

\* Variant: a refused request records "Model not ready" in load_error.
GateReady_RecordsError ==
    /\ req.pc = "gate_ready"
    /\ LET r == [req EXCEPT !.gate = Append(@, model_ready)]
       IN  IF ~model_ready
           THEN req' = NotReady503(r) /\ load_error' = Some("Model not ready")
           ELSE req' = [r EXCEPT !.pc = "gate_model"] /\ UNCHANGED load_error
    /\ UNCHANGED <<model, tokenizer, model_ready, marker, loadPc, markerSeen,
                   failedAt, downloadCalls, saveCalls, envVars, started,
                   threadsStarted>>

\* Variant: the gate tests only "model is None or tokenizer is None".
GateReady_IgnoresFlag ==
    /\ req.pc = "gate_ready"
    /\ req' = [req EXCEPT !.gate = Append(@, model_ready), !.pc = "gate_model"]
    /\ UNCHANGED <<loadVars, envVars, started, threadsStarted>>

\* "if not model_ready": the first operand of the gate, a read of the global flag.
GateReady ==
    /\ req.pc = "gate_ready"
    /\ LET r == [req EXCEPT !.gate = Append(@, model_ready)]
       IN  req' = IF ~model_ready THEN NotReady503(r)
                  ELSE [r EXCEPT !.pc = "gate_model"]
    /\ UNCHANGED <<loadVars, envVars, started, threadsStarted>>

\* "or model is None"
GateModel ==
    /\ req.pc = "gate_model"
    /\ req' = IF model = None THEN NotReady503(req)
              ELSE [req EXCEPT !.pc = "gate_tokenizer"]
    /\ UNCHANGED <<loadVars, envVars, started, threadsStarted>>

\* "or tokenizer is None"
GateTokenizer ==
    /\ req.pc = "gate_tokenizer"
    /\ req' = IF tokenizer = None THEN NotReady503(req)
              ELSE [req EXCEPT !.pc = "tokenize"]
    /\ UNCHANGED <<loadVars, envVars, started, threadsStarted>>

\* inputs = tokenizer(text, ...)
Tokenize ==
    /\ req.pc = "tokenize"
    /\ tokenizer # None
    /\ req' = [req EXCEPT !.tokCalls = Append(@, req.i),
                          !.inputs = Some(req.texts[req.i]),
                          !.pc = "forward"]
    /\ UNCHANGED <<loadVars, envVars, started, threadsStarted>>

\* Variant: each new result is put in front of the list.
AppendResult_Prepend(results, resp) == <<resp>> \o results

\* The list the handler returns grows by one result, in input order.
AppendResult(results, resp) == Append(results, resp)

\* outputs = model(**inputs) ... return ClassifyResponse(...); the handler then
\* answers (classify, or the last element of a batch) or goes on to the next text.
ForwardPass ==
    /\ req.pc = "forward"
    /\ model # None
    /\ LET resp == ClassifyResponse(Forward(model[1], req.inputs[1]))
           r == [req EXCEPT !.fwdCalls = Append(@, req.i),
                            !.inputs = None,
                            !.results = AppendResult(@, resp)]
       IN  req' = IF req.i = Len(req.texts)
                  THEN [r EXCEPT !.status = 200, !.pc = "done"]
                  ELSE [r EXCEPT !.i = req.i + 1, !.pc = "gate_ready"]
    /\ UNCHANGED <<loadVars, envVars, started, threadsStarted>>

\* ------------------------------------------------------------------ health

\* Variant: ok reports readiness instead of the absence of an error.
HealthOk_UsesReady ==
    /\ req.pc = "health_ok"
    /\ req' = [req EXCEPT !.ok = Some(model_ready), !.pc = "health_ready"]
    /\ UNCHANGED <<loadVars, envVars, started, threadsStarted>>

\* ok=load_error is None
HealthOk ==
    /\ req.pc = "health_ok"
    /\ req' = [req EXCEPT !.ok = Some(load_error = None), !.pc = "health_ready"]
    /\ UNCHANGED <<loadVars, envVars, started, threadsStarted>>

\* ready=model_ready
HealthReady ==
    /\ req.pc = "health_ready"
    /\ req' = [req EXCEPT !.ready = Some(model_ready), !.pc = "health_error"]
    /\ UNCHANGED <<loadVars, envVars, started, threadsStarted>>

\* error=load_error; the HealthResponse is returned with status 200.
HealthError ==
    /\ req.pc = "health_error"
    /\ req' = [req EXCEPT !.error = load_error, !.status = 200, !.pc = "done"]
    /\ UNCHANGED <<loadVars, envVars, started, threadsStarted>>

\* ----------------------------------------------------------- specification

Init ==
    /\ model = None
    /\ tokenizer = None
    /\ model_ready = FALSE
    /\ load_error = None
    /\ HF_TOKEN \in HfTokenValues
    /\ marker \in BOOLEAN
    /\ weights \in Weights
    /\ started = FALSE
    /\ loadPc = "not_started"
    /\ markerSeen = None
    /\ failedAt = None
    /\ downloadCalls = 0
    /\ saveCalls = 0
    /\ threadsStarted = 0
    /\ req = NoRequest
    /\ probs = None
    /\ response = None
    /\ restarts = 0
    /\ readyByDownload = FALSE

LoadStep ==
    \/ LoadMakedirs
    \/ LoadExists
    \/ LoadDiskTokenizer
    \/ LoadDiskModel
    \/ LoadCheckToken
    \/ LoadDownloadTokenizer
    \/ LoadDownloadModel
    \/ LoadSaveTokenizer
    \/ LoadSaveModel
    \/ LoadRequiresGrad
    \/ LoadSetReady

HandlerStep ==
    \/ BatchStart
    \/ GateReady
    \/ GateModel
    \/ GateTokenizer
    \/ Tokenize
    \/ ForwardPass
    \/ HealthOk
    \/ HealthReady
    \/ HealthError

Receive ==
    \/ ReceiveClassify
    \/ ReceiveBatch
    \/ ReceiveHealth

Next ==
    \/ lifespan
    \/ LoadStep
    \/ Receive
    \/ HandlerStep

Spec == Init /\ [][Next]_vars

\* The framework runs lifespan at startup, and the load thread is scheduled as long
\* as it has a step to take; every external call it makes returns or raises.
SpecFair == Spec /\ WF_vars(lifespan) /\ WF_vars(LoadStep)

\* ------------------------------------------------------- process restarts

\* The orchestrator stops the process at any point and starts it again on the same
\* cache directory: the module globals are initialised anew (lines 33-44), the
\* files stay.  A process stopped inside model.save_pretrained may or may not have
\* written config.json.
Restart ==
    /\ started
    /\ restarts < MaxRestarts
    /\ restarts' = restarts + 1
    /\ readyByDownload' = (readyByDownload \/ (model_ready /\ markerSeen = Some(FALSE)))
    /\ marker' \in (IF loadPc = "save_model" THEN {marker, TRUE} ELSE {marker})
    /\ HF_TOKEN' \in HfTokenValues
    /\ model' = None
    /\ tokenizer' = None
    /\ model_ready' = FALSE
    /\ load_error' = None
    /\ started' = FALSE
    /\ loadPc' = "not_started"
    /\ markerSeen' = None
    /\ failedAt' = None
    /\ downloadCalls' = 0
    /\ saveCalls' = 0
    /\ threadsStarted' = 0
    /\ req' = NoRequest
    /\ UNCHANGED <<weights, probs, response>>

SpecRestart == Init /\ [][Next \/ Restart]_vars

\* ----------------------------------------- the pure part of classify_single

\* Probabilities in millionths that the softmax of three logits can take: the ends
\* of the range, equal values, and values on and next to a rounding boundary.
ProbGrid ==
    {0, 49, 50, 51, 150, 250, 12349, 100050, 333333, 333334, 400000, 499975,
     500000, 899900, 999000, 999950, 1000000}

\* softmax(...)[0]: three probabilities whose sum is 1 up to the last float digit.
ProbVectors ==
    {v \in {<<ab[1], ab[2], 1000000 + e - ab[1] - ab[2]>> :
                ab \in ProbGrid \X ProbGrid, e \in {-1, 0, 1}} : v[3] >= 0}

\* Lines 134-150 of classify_single applied to one output of the model.
ClassifyProbs ==
    /\ \E v \in ProbVectors :
           /\ probs' = Some(v)
           /\ response' = Some(ClassifyResponse(v))
    /\ UNCHANGED <<loadVars, HF_TOKEN, weights, started, threadsStarted, req,
                   restarts, readyByDownload>>

SpecClassify == Init /\ [][ClassifyProbs]_vars

\* ------------------------------------------------------------------ claims

LoadPcs ==
    {"not_started", "makedirs", "exists", "disk_tokenizer", "disk_model", "check_token",
     "download_tokenizer", "download_model", "save_tokenizer", "save_model",
     "requires_grad", "set_ready", "done"}

Range(f) == {f[k] : k \in DOMAIN f}

\* C1: the tokenizer and the model are invoked for a text only if that text's gate
\* check read model_ready = TRUE, and a request one of whose gate checks read FALSE
\* is answered 503 at once, with no tokenizer or model invocation in the request.
C1_InferenceOnlyBehindGate ==
    /\ \A k \in Range(req.tokCalls) \cup Range(req.fwdCalls) :
           k \in DOMAIN req.gate /\ req.gate[k] = TRUE
    /\ FALSE \in Range(req.gate) =>
           /\ req.pc = "done"
           /\ req.status = 503
           /\ req.results = <<>>
           /\ req.tokCalls = <<>>
           /\ req.fwdCalls = <<>>

\* C1 witness: model and tokenizer are already assigned, the load thread has not yet
\* set the flag, and a classify request was refused at the gate.
C1_Witness ==
    /\ req.kind = "classify"
    /\ req.gate = <<FALSE>>
    /\ req.status = 503
    /\ model # None /\ tokenizer # None
    /\ loadPc \in {"requires_grad", "set_ready"}

\* C2: the readiness state starts {false, none}; a step changes it only from
\* {false, none}, and only to {true, none} or {false, message}; so it changes at
\* most once, ready never reverts, an error is never cleared or replaced, and
\* {true, message} is never reached.
C2_ReadinessWriteOnce ==
    /\ (model_ready = FALSE /\ load_error = None)
    /\ [][<<model_ready, load_error>>' # <<model_ready, load_error>> =>
             /\ model_ready = FALSE /\ load_error = None
             /\ \/ model_ready' = TRUE /\ load_error' = None
                \/ model_ready' = FALSE /\ load_error' # None]_vars
    /\ [](~(model_ready /\ load_error # None))

\* C2 witness: the single transition was the one made after a missing credential.
C2_Witness ==
    /\ loadPc = "done"
    /\ model_ready = FALSE
    /\ load_error = Some(HfTokenMissingMsg)

\* C3: whichever call of load_model raises, load_model has returned normally with
\* load_error set and model_ready false; the thread never ends by an exception, and
\* a health request received afterwards is still served (its next step is enabled
\* until it is answered with 200).
C3_LoadFailureIsRecorded ==
    /\ loadPc \in LoadPcs
    /\ failedAt # None =>
           /\ loadPc = "done"
           /\ load_error # None
           /\ model_ready = FALSE
           /\ req.kind = "health" =>
                  IF req.pc = "done" THEN req.status = 200
                  ELSE ENABLED (HealthOk \/ HealthReady \/ HealthError)

\* C3 witness: the write-back of the model to the cache raised, and a health request
\* received after that was answered.
C3_Witness ==
    /\ failedAt = Some("save_model")
    /\ req.kind = "health" /\ req.pc = "done" /\ req.status = 200
    /\ req.ok = Some(FALSE)

\* C4: if os.path.exists saw the marker, load is on the load-from-disk branch and
\* makes no download call and no cache write-back, with or without a credential and
\* whether the disk load succeeds or raises.
C4_MarkerMeansNoDownload ==
    markerSeen = Some(TRUE) =>
        /\ downloadCalls = 0
        /\ saveCalls = 0
        /\ loadPc \in {"disk_tokenizer", "disk_model", "requires_grad", "set_ready", "done"}

\* C4 witness: marker present, a credential configured, the disk load raised.
C4_Witness ==
    /\ markerSeen = Some(TRUE)
    /\ HF_TOKEN = Some("hf_token")
    /\ failedAt = Some("disk_model")
    /\ loadPc = "done"

NoCredential == HF_TOKEN \in {None, Some("")}

\* C5 as stated: marker absent and no credential: load ends with the readiness state
\* {false, "HF_TOKEN not set and model not cached"}, with no download call and never
\* ready.
C5_Original ==
    (~marker /\ NoCredential) =>
        /\ model_ready = FALSE
        /\ downloadCalls = 0
        /\ loadPc = "done" => load_error = Some(HfTokenMissingMsg)

\* C5 amended: marker absent and no credential: load never makes a download call and
\* never becomes ready; it ends with {false, "HF_TOKEN not set and model not cached"}
\* if os.makedirs returned, and with {false, str(e)} if os.makedirs raised e.
C5_NoCredentialNoCache ==
    (~marker /\ NoCredential) =>
        /\ model_ready = FALSE
        /\ downloadCalls = 0
        /\ failedAt \in {None, Some("makedirs")}
        /\ loadPc = "done" =>
               IF failedAt = None THEN load_error = Some(HfTokenMissingMsg)
               ELSE load_error # None

\* C5 witness: HF_TOKEN is the empty string, no marker, load has ended with the message.
C5_Witness ==
    /\ ~marker
    /\ HF_TOKEN = Some("")
    /\ loadPc = "done"
    /\ load_error = Some(HfTokenMissingMsg)

\* C6: while model_ready is false (it has then been false since the start), every
\* answered classify request and every answered classify/batch request with a
\* non-empty list got 503; an answered health request has 200 at any time; and a
\* request in progress always has its next step enabled, whatever the load thread
\* is doing.
C6_NotReadyBeforeLoad ==
    /\ (~model_ready /\ req.pc = "done" /\ req.kind = "classify") => req.status = 503
    /\ (~model_ready /\ req.pc = "done" /\ req.kind = "batch" /\ req.texts # <<>>) =>
           req.status = 503
    /\ (req.pc = "done" /\ req.kind = "health") => req.status = 200
    /\ req.pc # "done" => ENABLED HandlerStep

\* C6 witness: load failed after model and tokenizer were assigned; a non-empty batch
\* got 503.
C6_Witness ==
    /\ loadPc = "done" /\ ~model_ready
    /\ model # None /\ tokenizer # None
    /\ req.kind = "batch" /\ Len(req.texts) = 2
    /\ req.pc = "done" /\ req.status = 503

\* C7 as stated: every health response has ok = true exactly when its error field is
\* null, and reports ready only if the flag is set.
C7_HealthOkIffNoError ==
    (req.kind = "health" /\ req.pc = "done") =>
        /\ (req.ok = Some(TRUE)) <=> (req.error = None)
        /\ req.ready = Some(TRUE) => model_ready

\* C8: classify/batch on an empty list is answered 200 with an empty list and without
\* a gate check, tokenizer call or model call, in every readiness state.
C8_EmptyBatch ==
    (req.kind = "batch" /\ req.texts = <<>> /\ req.pc = "done") =>
        /\ req.status = 200
        /\ req.results = <<>>
        /\ req.gate = <<>> /\ req.tokCalls = <<>> /\ req.fwdCalls = <<>>

\* C8 witness: an empty batch answered after load has failed.
C8_Witness ==
    /\ req.kind = "batch" /\ req.texts = <<>> /\ req.pc = "done" /\ req.status = 200
    /\ loadPc = "done" /\ load_error # None

\* What classify_single returns for one text with the loaded model.
SingleResult(text) == ClassifyResponse(Forward(model[1], text))

\* C9: a classify/batch request answered 200 for N texts returns N results, the i-th
\* being the single-text result of the i-th text, with the tokenizer and the model
\* invoked once per element, in order.
C9_BatchIsMapOfSingle ==
    (req.kind = "batch" /\ req.pc = "done" /\ req.status = 200) =>
        /\ Len(req.results) = Len(req.texts)
        /\ \A k \in 1..Len(req.texts) : req.results[k] = SingleResult(req.texts[k])
        /\ req.tokCalls = [k \in 1..Len(req.texts) |-> k]
        /\ req.fwdCalls = [k \in 1..Len(req.texts) |-> k]

\* C9 witness: a batch of two different texts with two different results.
C9_Witness ==
    /\ req.kind = "batch" /\ req.pc = "done" /\ req.status = 200
    /\ Len(req.texts) = 2 /\ req.texts[1] # req.texts[2]
    /\ Len(req.results) = 2 /\ req.results[1] # req.results[2]

\* The load thread is started and has recorded neither success nor failure.
LoadingWindow == started /\ model_ready = FALSE /\ load_error = None

\* C10: a health request answered while load is still running reports ok = true,
\* ready = false, error = null with status 200, and a health request in progress in
\* that window always has its next step enabled.
C10_HealthDuringLoading ==
    (LoadingWindow /\ req.kind = "health") =>
        IF req.pc = "done"
        THEN /\ req.status = 200
             /\ req.ok = Some(TRUE) /\ req.ready = Some(FALSE) /\ req.error = None
        ELSE ENABLED (HealthOk \/ HealthReady \/ HealthError)

\* C10 witness: a health response with ok true and ready false during a download.
C10_Witness ==
    /\ loadPc = "download_model"
    /\ req.kind = "health" /\ req.pc = "done" /\ req.status = 200
    /\ req.ok = Some(TRUE) /\ req.ready = Some(FALSE) /\ req.error = None

\* C11: for every probability vector the label is the class of the first maximum
\* in the order BENIGN, INJECTION, JAILBREAK; the injection flag is true iff the
\* label is INJECTION and the jailbreak flag iff it is JAILBREAK, so the flags are
\* never both true and are both false exactly when the label is BENIGN.
C11_LabelIsFirstMaximum ==
    response # None =>
        LET v == probs[1]
            r == response[1]
        IN  /\ \E k \in 1..3 :
                   /\ r.label = LABEL_NAMES[k]
                   /\ \A j \in 1..3 : v[j] <= v[k]
                   /\ \A j \in 1..(k - 1) : v[j] < v[k]
            /\ r.injection <=> (r.label = "INJECTION")
            /\ r.jailbreak <=> (r.label = "JAILBREAK")
            /\ ~(r.injection /\ r.jailbreak)
            /\ (~r.injection /\ ~r.jailbreak) <=> (r.label = "BENIGN")

\* C11 witness: INJECTION and JAILBREAK tie for the maximum; the label is INJECTION.
C11_Witness ==
    /\ probs = Some(<<50, 499975, 499975>>)
    /\ response # None
    /\ response[1].label = "INJECTION"
    /\ response[1].injection /\ ~response[1].jailbreak

\* C12: the three scores (ten-thousandths after rounding to 4 digits) sum to 1
\* within 1e-3, and the label is one of BENIGN, INJECTION, JAILBREAK.
C12_ScoresSumToOne ==
    response # None =>
        LET sc == response[1].scores
            total == sc.benign + sc.injection + sc.jailbreak
        IN  /\ total >= 10000 - 10 /\ total <= 10000 + 10
            /\ response[1].label \in {"BENIGN", "INJECTION", "JAILBREAK"}

\* C12 witness: the rounded scores do not sum to exactly 1.
C12_Witness ==
    /\ probs = Some(<<333333, 333333, 333334>>)
    /\ response # None
    /\ response[1].scores.benign + response[1].scores.injection
           + response[1].scores.jailbreak = 9999

\* The globals that load_model declares "global" and the handlers only read.
sharedState == <<model, tokenizer, model_ready, load_error>>

\* C13: no step of a request handler (receiving a request included) changes model,
\* tokenizer, model_ready or load_error, whether the request ends in 200 or 503;
\* a step that changes one of them is a step of the load thread, taken while
\* model_ready is still false.
C13_HandlersLeaveSharedState ==
    [][/\ (HandlerStep \/ Receive) => UNCHANGED sharedState
       /\ sharedState' # sharedState =>
              /\ loadPc' # loadPc
              /\ req' = req
              /\ model_ready = FALSE]_vars

\* C13 witness: a batch refused during loading, with model and tokenizer assigned and
\* the readiness state untouched.
C13_Witness ==
    /\ req.kind = "batch" /\ req.pc = "done" /\ req.status = 503
    /\ model # None /\ tokenizer # None
    /\ model_ready = FALSE /\ load_error = None

\* C14: on the download path (os.path.exists saw no marker, a credential is set) the
\* calls are made in the order download tokenizer, download model, save tokenizer,
\* save model, and model_ready is set only after both saves returned and the marker
\* is on disk; so after a process became ready through a download, every later
\* process on the same cache directory sees the marker and makes no download call.
C14_ReadyAfterWriteBack ==
    /\ markerSeen = Some(FALSE) =>
           /\ loadPc = "download_tokenizer" =>
                  downloadCalls = 0 /\ saveCalls = 0 /\ tokenizer = None /\ model = None
           /\ loadPc = "download_model" =>
                  downloadCalls = 1 /\ saveCalls = 0 /\ tokenizer # None /\ model = None
           /\ loadPc = "save_tokenizer" =>
                  downloadCalls = 2 /\ saveCalls = 0 /\ tokenizer # None /\ model # None
           /\ loadPc = "save_model" =>
                  downloadCalls = 2 /\ saveCalls = 1 /\ ~marker
           /\ loadPc \in {"requires_grad", "set_ready"} =>
                  downloadCalls = 2 /\ saveCalls = 2 /\ marker
           /\ model_ready =>
                  downloadCalls = 2 /\ saveCalls = 2 /\ marker
    /\ readyByDownload =>
           /\ marker
           /\ markerSeen # Some(FALSE)
           /\ downloadCalls = 0

\* C14 witness: a process became ready through a download, and the next process on
\* the same cache directory, with a credential configured, loaded from disk.
C14_Witness ==
    /\ readyByDownload
    /\ restarts = 1
    /\ HF_TOKEN = Some("hf_token")
    /\ markerSeen = Some(TRUE)
    /\ model_ready
    /\ downloadCalls = 0

\* The order of the statements of load_model (the two branches share ranks).
LoadRank(pc) ==
    CASE pc = "not_started" -> 0
      [] pc = "makedirs" -> 1
      [] pc = "exists" -> 2
      [] pc \in {"disk_tokenizer", "check_token"} -> 3
      [] pc \in {"disk_model", "download_tokenizer"} -> 4
      [] pc = "download_model" -> 5
      [] pc = "save_tokenizer" -> 6
      [] pc = "save_model" -> 7
      [] pc = "requires_grad" -> 8
      [] pc = "set_ready" -> 9
      [] pc = "done" -> 10
      [] OTHER -> 0 - 1

\* C15: within one process one load thread is started, at startup; the load thread
\* only moves forward through load_model, so each step (each download call
\* included) is attempted at most once; and after a failed load nothing starts
\* another load, makes another call or sets model_ready.
C15_LoadRunsOnce ==
    /\ [](/\ threadsStarted <= 1
          /\ started <=> (threadsStarted = 1)
          /\ downloadCalls <= 2 /\ saveCalls <= 2)
    /\ [][loadPc' # loadPc => LoadRank(loadPc') > LoadRank(loadPc)]_vars
    /\ [][downloadCalls' # downloadCalls =>
              /\ downloadCalls' = downloadCalls + 1
              /\ loadPc \in {"download_tokenizer", "download_model"}
              /\ loadPc' # loadPc]_vars
    /\ [][(loadPc = "done" /\ ~model_ready) =>
              UNCHANGED <<loadPc, threadsStarted, started, downloadCalls, saveCalls,
                          sharedState>>]_vars

\* C15 witness: the model download failed, and a classify request handled afterwards
\* was refused without a second download attempt.
C15_Witness ==
    /\ failedAt = Some("download_model")
    /\ loadPc = "done" /\ threadsStarted = 1 /\ downloadCalls = 2
    /\ req.kind = "classify" /\ req.pc = "done" /\ req.status = 503

\* C16: a classify/batch request on a non-empty list is answered either 200 with a
\* result for every text or 503 with no result, never with a partial list; if the
\* first text's gate check read TRUE then every later gate check of the request
\* reads TRUE; if it read FALSE the request ends there with 503 and the tokenizer
\* and the model are invoked for no text, even if model_ready turns true afterwards.
C16_BatchAllOrNothing ==
    (req.kind = "batch" /\ req.texts # <<>>) =>
        /\ req.pc = "done" =>
               \/ req.status = 200 /\ Len(req.results) = Len(req.texts)
               \/ req.status = 503 /\ req.results = <<>>
        /\ (req.gate # <<>> /\ req.gate[1] = TRUE) =>
               /\ \A k \in DOMAIN req.gate : req.gate[k] = TRUE
               /\ req.status # 503
        /\ (req.gate # <<>> /\ req.gate[1] = FALSE) =>
               /\ req.gate = <<FALSE>>
               /\ req.pc = "done" /\ req.status = 503
               /\ req.tokCalls = <<>> /\ req.fwdCalls = <<>>

\* C16 witness: the first of two texts was refused, and model_ready has turned true
\* since; the request still stands at 503 with nothing invoked.
C16_Witness ==
    /\ req.kind = "batch" /\ Len(req.texts) = 2
    /\ req.gate = <<FALSE>> /\ req.status = 503 /\ req.fwdCalls = <<>>
    /\ model_ready = TRUE

\* C17: model_ready = true implies that model and tokenizer are both set.  The
\* converse does not hold: when a cache write-back raised after the download, model
\* and tokenizer are set, model_ready is false and load_error is set, and a
\* classify request answered in that state got 503.
C17_ReadyImpliesLoaded ==
    /\ model_ready => (model # None /\ tokenizer # None)
    /\ failedAt \in {Some("save_tokenizer"), Some("save_model")} =>
           /\ model # None /\ tokenizer # None
           /\ model_ready = FALSE
           /\ load_error # None
           /\ (req.kind = "classify" /\ req.pc = "done") => req.status = 503

\* C17 witness: the tokenizer write-back raised; model and tokenizer are set, the
\* flag is not, and a classify request was refused.
C17_Witness ==
    /\ failedAt = Some("save_tokenizer")
    /\ model # None /\ tokenizer # None /\ ~model_ready /\ load_error # None
    /\ req.kind = "classify" /\ req.pc = "done" /\ req.status = 503

\* C18: if every external call of load returns or raises, the load thread eventually
\* finishes; when it has finished, exactly one of "model_ready is true" and
\* "load_error is set" holds; so the state does not stay {false, none} forever.
C18_LoadTerminates ==
    /\ <>(loadPc = "done")
    /\ [](loadPc = "done" => (model_ready <=> (load_error = None)))
    /\ <>(model_ready \/ load_error # None)

\* C18 witness: load has finished with success.
C18_Witness ==
    /\ loadPc = "done"
    /\ model_ready = TRUE /\ load_error = None
    /\ failedAt = None

\* C19: no health request, answered or in progress, has read ready = true together
\* with ok = false or with a non-null error.
C19_ReadyNeverWithError ==
    req.kind = "health" =>
        ~(/\ req.ready = Some(TRUE)
          /\ \/ req.ok = Some(FALSE)
             \/ req.pc = "done" /\ req.error # None)

\* C19 witness: a health response with ready = true, ok = true and no error.
C19_Witness ==
    /\ req.kind = "health" /\ req.pc = "done" /\ req.status = 200
    /\ req.ready = Some(TRUE) /\ req.ok = Some(TRUE) /\ req.error = None

====
